---- MODULE Spec2Model ----
(***************************************************************************)
(* A model of the contact directory of team-assistant-bot: the validated   *)
(* fields, Record, AddressBook, the command handlers wrapped by            *)
(* input_error (src/main.py), the address handlers                         *)
(* (src/src/assistant/address_book.py) and the pickle persistence.         *)
(*                                                                         *)
(* Strings that the code inspects character by character (phone numbers)   *)
(* are sequences of one-character tokens; "sup2" stands for U+00B2, a      *)
(* character for which str.isdigit() is True and which is not one of       *)
(* 0..9.  A birthday string is the sequence of the numbers its dot         *)
(* separated fields hold; a calendar date is a record [y, m, d].           *)
(***************************************************************************)
EXTENDS Integers, Sequences, FiniteSets, TLC

VARIABLES
    book,    \* AddressBook.data: the Records in dict (insertion) order
    files,   \* the file system: path -> [exists, data]
    call,    \* the operation that ran last: [cmd, today, path]
    result,  \* what it returned or raised: [kind, text, lines]
    saved    \* history: path -> the content of the book save_data last wrote

vars == <<book, files, call, result, saved>>

----------------------------------------------------------------------------
(* Bounds of the model *)

MaxPhones == 2
MaxRecords == 2
MaxAddresses == 1

----------------------------------------------------------------------------
(* Characters and strings *)

DecimalChars == {"0", "1", "2", "3", "4", "5", "6", "7", "8", "9"}

\* the characters c with c.isdigit(): the decimal digits and, among others, U+00B2
IsDigitChars == DecimalChars \cup {"sup2"}

isdigit(s) == Len(s) > 0 /\ \A i \in 1..Len(s) : s[i] \in IsDigitChars

P1 == <<"0", "1", "2", "3", "4", "5", "6", "7", "8", "9">>
P2 == <<"5", "5", "5", "5", "5", "5", "5", "5", "5", "5">>
PSup == <<"sup2", "sup2", "sup2", "sup2", "sup2", "sup2", "sup2", "sup2", "sup2", "sup2">>
PShort == <<"1", "2", "3">>
PLong == <<"0", "1", "2", "3", "4", "5", "6", "7", "8", "9", "0">>
PEmpty == <<>>

PhoneInputs == {P1, P2, PSup, PShort, PLong, PEmpty}

Names == {"a", "b"}
NameInputs == Names \cup {""}
MoreNames == Names \cup {"c"}

----------------------------------------------------------------------------
(* Calendar dates as datetime.date has them *)

None == [y |-> 0, m |-> 0, d |-> 0]

Date(y, m, d) == [y |-> y, m |-> m, d |-> d]

IsLeap(y) == y % 4 = 0 /\ (y % 100 # 0 \/ y % 400 = 0)

DaysInMonth(y, m) ==
    IF m = 2 THEN (IF IsLeap(y) THEN 29 ELSE 28)
    ELSE IF m \in {4, 6, 9, 11} THEN 30 ELSE 31

IsValidDate(dt) ==
    /\ dt.y \in 1..9999
    /\ dt.m \in 1..12
    /\ dt.d \in 1..DaysInMonth(dt.y, dt.m)

RECURSIVE DaysBeforeMonth(_, _)
DaysBeforeMonth(y, m) ==
    IF m = 1 THEN 0 ELSE DaysBeforeMonth(y, m - 1) + DaysInMonth(y, m - 1)

DaysBeforeYear(y) ==
    (y - 1) * 365 + ((y - 1) \div 4) - ((y - 1) \div 100) + ((y - 1) \div 400)

toordinal(dt) == DaysBeforeYear(dt.y) + DaysBeforeMonth(dt.y, dt.m) + dt.d

\* date.weekday(): 0 = Monday ... 6 = Sunday
weekday(dt) == (toordinal(dt) + 6) % 7

\* date.__lt__ / __le__
DateLT(a, b) ==
    \/ a.y < b.y
    \/ a.y = b.y /\ a.m < b.m
    \/ a.y = b.y /\ a.m = b.m /\ a.d < b.d

DateLE(a, b) == a = b \/ DateLT(a, b)

NextDay(dt) ==
    IF dt.d < DaysInMonth(dt.y, dt.m) THEN [dt EXCEPT !.d = dt.d + 1]
    ELSE IF dt.m < 12 THEN Date(dt.y, dt.m + 1, 1)
    ELSE Date(dt.y + 1, 1, 1)

\* date + timedelta(days=n), n >= 0
RECURSIVE AddDays(_, _)
AddDays(dt, n) == IF n = 0 THEN dt ELSE AddDays(NextDay(dt), n - 1)

\* date.replace(year=y): [exc, value]; ValueError when the day does not exist
date_replace_year(dt, y) ==
    LET r == [dt EXCEPT !.y = y]
    IN  IF IsValidDate(r) THEN [exc |-> "", value |-> r]
        ELSE [exc |-> "ValueError: day is out of range for month", value |-> None]

----------------------------------------------------------------------------
(* Fields *)

NoExc == ""
KeyError == "KeyError"
InvalidName == "Invalid name."
PhoneError == "Phone number must contain exactly 10 digits."
BirthdayFormatError == "Invalid date format. Use DD.MM.YYYY"
BirthdayAlreadySet == "Birthday already set."

\* Name.__init__ raises ValueError when the value is empty
Name_raises(value) == value = ""

Phone_validate(value) == isdigit(value) /\ Len(value) = 10

\* Birthday.__init__: strptime(value, "%d.%m.%Y").date(), or ValueError
Birthday(value) ==
    IF Len(value) = 3 /\ IsValidDate(Date(value[3], value[2], value[1]))
    THEN [exc |-> NoExc, value |-> Date(value[3], value[2], value[1])]
    ELSE [exc |-> BirthdayFormatError, value |-> None]

----------------------------------------------------------------------------
(* Record *)

Record(name) ==
    [name |-> name, phones |-> <<>>, birthday |-> None,
     hasAddresses |-> FALSE, addresses |-> <<>>]

\* the index of the first Phone whose value is phone_number, 0 for None
Record_find_phone(rec, phone_number) ==
    IF \E i \in 1..Len(rec.phones) : rec.phones[i] = phone_number
    THEN CHOOSE i \in 1..Len(rec.phones) :
            /\ rec.phones[i] = phone_number
            /\ \A j \in 1..(i - 1) : rec.phones[j] # phone_number
    ELSE 0

Record_add_phone(rec, phone_number) ==
    IF Phone_validate(phone_number)
    THEN [exc |-> NoExc, ret |-> TRUE,
          rec |-> [rec EXCEPT !.phones = Append(@, phone_number)]]
    ELSE [exc |-> PhoneError, ret |-> FALSE, rec |-> rec]

RemoveAt(s, k) == [i \in 1..(Len(s) - 1) |-> IF i < k THEN s[i] ELSE s[i + 1]]

Record_remove_phone(rec, phone_number) ==
    LET k == Record_find_phone(rec, phone_number)
    IN  IF k # 0 THEN [rec EXCEPT !.phones = RemoveAt(@, k)] ELSE rec

\* a variant that validates the new number before it looks for the old one
Record_edit_phone_ValidateFirst(rec, old_number, new_number) ==
    LET k == Record_find_phone(rec, old_number)
    IN  IF ~Phone_validate(new_number)
        THEN [exc |-> PhoneError, ret |-> FALSE, rec |-> rec]
        ELSE IF k # 0
        THEN [exc |-> NoExc, ret |-> TRUE,
              rec |-> [rec EXCEPT !.phones[k] = new_number]]
        ELSE [exc |-> NoExc, ret |-> FALSE, rec |-> rec]

Record_edit_phone(rec, old_number, new_number) ==
    LET k == Record_find_phone(rec, old_number)
    IN  IF k # 0
        THEN IF Phone_validate(new_number)
             THEN [exc |-> NoExc, ret |-> TRUE,
                   rec |-> [rec EXCEPT !.phones[k] = new_number]]
             ELSE [exc |-> PhoneError, ret |-> FALSE, rec |-> rec]
        ELSE [exc |-> NoExc, ret |-> FALSE, rec |-> rec]

\* a variant without the "is not None" test
Record_add_birthday_Overwrite(rec, birthday_str) ==
    LET b == Birthday(birthday_str)
    IN  IF b.exc # NoExc THEN [exc |-> b.exc, rec |-> rec]
        ELSE [exc |-> NoExc, rec |-> [rec EXCEPT !.birthday = b.value]]

Record_add_birthday(rec, birthday_str) ==
    IF rec.birthday # None
    THEN [exc |-> BirthdayAlreadySet, rec |-> rec]
    ELSE LET b == Birthday(birthday_str)
         IN  IF b.exc # NoExc THEN [exc |-> b.exc, rec |-> rec]
             ELSE [exc |-> NoExc, rec |-> [rec EXCEPT !.birthday = b.value]]

----------------------------------------------------------------------------
(* AddressBook *)

\* the index of the Record stored under name, 0 for None
AddressBook_find(b, name) ==
    IF \E i \in 1..Len(b) : b[i].name = name
    THEN CHOOSE i \in 1..Len(b) : b[i].name = name
    ELSE 0

AddressBook_add_record(b, rec) ==
    LET i == AddressBook_find(b, rec.name)
    IN  IF i # 0 THEN [b EXCEPT ![i] = rec] ELSE Append(b, rec)

AddressBook_delete(b, name) ==
    LET i == AddressBook_find(b, name)
    IN  IF i # 0 THEN RemoveAt(b, i) ELSE b

----------------------------------------------------------------------------
(* What an operation hands back *)

Returned(text) == [kind |-> "return", text |-> text, lines |-> <<>>]

ReturnedLines(lines) == [kind |-> "return", text |-> "", lines |-> lines]

Raised(exc) == [kind |-> "raise", text |-> exc, lines |-> <<>>]

Called(cmd) == [cmd |-> cmd, today |-> None, path |-> ""]

\* the decorator: KeyError -> "Contact not found.", ValueError e -> str(e)
input_error(exc, text) ==
    IF exc = NoExc THEN Returned(text)
    ELSE IF exc = KeyError THEN Returned("Contact not found.")
    ELSE Returned(exc)

----------------------------------------------------------------------------
(* The phone and birthday handlers of main.py, and the operations of       *)
(* Record and AddressBook that have no handler                            *)

add_contact(name, phone) ==
    LET i == AddressBook_find(book, name)
        b1 == IF i = 0 THEN AddressBook_add_record(book, Record(name))
              ELSE book
        j == AddressBook_find(b1, name)
        message == IF i = 0 THEN "Contact added." ELSE "Contact updated."
    IN  /\ call' = Called("add_contact")
        /\ UNCHANGED <<files, saved>>
        /\ (i = 0 /\ ~Name_raises(name)) => Len(book) < MaxRecords
        /\ IF i = 0 /\ Name_raises(name)
           THEN book' = book /\ result' = input_error(InvalidName, "")
           ELSE IF phone # <<>>
           THEN LET r == Record_add_phone(b1[j], phone)
                IN  /\ r.exc = NoExc => Len(b1[j].phones) < MaxPhones
                    /\ book' = [b1 EXCEPT ![j] = r.rec]
                    /\ result' = input_error(r.exc, message)
           ELSE book' = b1 /\ result' = input_error(NoExc, message)

change_contact(name, old_phone, new_phone) ==
    LET i == AddressBook_find(book, name)
    IN  /\ call' = Called("change_contact")
        /\ UNCHANGED <<files, saved>>
        /\ IF i = 0
           THEN book' = book /\ result' = input_error(KeyError, "")
           ELSE LET r == Record_edit_phone(book[i], old_phone, new_phone)
                IN  /\ book' = [book EXCEPT ![i] = r.rec]
                    /\ result' = input_error(r.exc,
                          IF r.ret THEN "Phone updated." ELSE "Old phone not found.")

remove_phone(name, phone_number) ==
    LET i == AddressBook_find(book, name)
    IN  /\ i # 0
        /\ call' = Called("remove_phone")
        /\ UNCHANGED <<files, saved>>
        /\ book' = [book EXCEPT ![i] = Record_remove_phone(@, phone_number)]
        /\ result' = Returned("None")

add_record(name) ==
    /\ ~Name_raises(name)
    /\ AddressBook_find(book, name) = 0 => Len(book) < MaxRecords
    /\ call' = Called("add_record")
    /\ UNCHANGED <<files, saved>>
    /\ book' = AddressBook_add_record(book, Record(name))
    /\ result' = Returned("None")

delete(name) ==
    /\ call' = Called("delete")
    /\ UNCHANGED <<files, saved>>
    /\ book' = AddressBook_delete(book, name)
    /\ result' = Returned("None")

add_birthday(name, bday_str) ==
    LET i == AddressBook_find(book, name)
    IN  /\ call' = Called("add_birthday")
        /\ UNCHANGED <<files, saved>>
        /\ IF i = 0
           THEN book' = book /\ result' = input_error(KeyError, "")
           ELSE LET r == Record_add_birthday(book[i], bday_str)
                IN  /\ book' = [book EXCEPT ![i] = r.rec]
                    /\ result' = input_error(r.exc, "Birthday added.")

----------------------------------------------------------------------------
(* AddressBook.get_upcoming_birthdays, with today = datetime.now().date()  *)
(* an input of the call                                                    *)

\* the birthday's month and day in today's year, or in the next year when
\* that day is before today: [exc, value], ValueError from date.replace
bday_this_year(birthday, today) ==
    LET c == date_replace_year(birthday, today.y)
    IN  IF c.exc # NoExc THEN c
        ELSE IF DateLT(c.value, today) THEN date_replace_year(c.value, today.y + 1)
        ELSE c

\* a variant that shifts by 6 - weekday
congr_date_ShiftSix(bday) ==
    IF weekday(bday) >= 5 THEN AddDays(bday, 6 - weekday(bday)) ELSE bday

\* a Saturday or Sunday moves to the Monday after it
congr_date(bday) ==
    IF weekday(bday) >= 5 THEN AddDays(bday, 7 - weekday(bday)) ELSE bday

\* one greeting, f"{congr_date:%Y-%m-%d}: {name}"
Greeting(dt, name) == [date |-> dt, name |-> name]

\* the loop over self.data.values() from Record i on: [exc, lines]
RECURSIVE upcoming_loop(_, _, _, _)
upcoming_loop(b, i, today, greetings) ==
    IF i > Len(b) THEN [exc |-> NoExc, lines |-> greetings]
    ELSE IF b[i].birthday = None THEN upcoming_loop(b, i + 1, today, greetings)
    ELSE LET c == bday_this_year(b[i].birthday, today)
         IN  IF c.exc # NoExc THEN [exc |-> c.exc, lines |-> <<>>]
             ELSE IF DateLE(today, c.value) /\ DateLE(c.value, AddDays(today, 7))
             THEN upcoming_loop(b, i + 1, today,
                      Append(greetings, Greeting(congr_date(c.value), b[i].name)))
             ELSE upcoming_loop(b, i + 1, today, greetings)

AddressBook_get_upcoming_birthdays(b, today) == upcoming_loop(b, 1, today, <<>>)

\* nothing catches the ValueError of date.replace: the call raises
get_upcoming_birthdays(today) ==
    LET r == AddressBook_get_upcoming_birthdays(book, today)
    IN  /\ call' = [cmd |-> "get_upcoming_birthdays", today |-> today, path |-> ""]
        /\ UNCHANGED <<book, files, saved>>
        /\ result' = IF r.exc # NoExc THEN Raised(r.exc) ELSE ReturnedLines(r.lines)

----------------------------------------------------------------------------
(* The address handlers of assistant/address_book.py                       *)

\* the index of the first Address whose value is old_address, 0 when none
find_address(rec, old_address) ==
    IF \E i \in 1..Len(rec.addresses) : rec.addresses[i] = old_address
    THEN CHOOSE i \in 1..Len(rec.addresses) :
            /\ rec.addresses[i] = old_address
            /\ \A j \in 1..(i - 1) : rec.addresses[j] # old_address
    ELSE 0

RECURSIVE Without(_, _)
Without(s, v) ==
    IF s = <<>> THEN <<>>
    ELSE IF Head(s) = v THEN Without(Tail(s), v)
    ELSE <<Head(s)>> \o Without(Tail(s), v)

add_address(name, address_str) ==
    LET i == AddressBook_find(book, name)
    IN  /\ call' = Called("add_address")
        /\ UNCHANGED <<files, saved>>
        /\ IF i = 0
           THEN book' = book /\ result' = input_error(KeyError, "")
           ELSE /\ Len(book[i].addresses) < MaxAddresses
                /\ book' = [book EXCEPT ![i].hasAddresses = TRUE,
                                        ![i].addresses = Append(@, address_str)]
                /\ result' = input_error(NoExc, "Address added.")

change_address(name, old_address, new_address) ==
    LET i == AddressBook_find(book, name)
    IN  /\ call' = Called("change_address")
        /\ UNCHANGED <<files, saved>>
        /\ IF i = 0 \/ (i # 0 /\ ~book[i].hasAddresses)
           THEN book' = book /\ result' = input_error(KeyError, "")
           ELSE LET k == find_address(book[i], old_address)
                IN  IF k # 0
                    THEN /\ book' = [book EXCEPT ![i].addresses[k] = new_address]
                         /\ result' = input_error(NoExc, "Address updated.")
                    ELSE /\ book' = book
                         /\ result' = input_error(NoExc, "Old address not found.")

remove_address(name, address_str) ==
    LET i == AddressBook_find(book, name)
    IN  /\ call' = Called("remove_address")
        /\ UNCHANGED <<files, saved>>
        /\ IF i = 0 \/ (i # 0 /\ ~book[i].hasAddresses)
           THEN book' = book /\ result' = input_error(KeyError, "")
           ELSE /\ book' = [book EXCEPT ![i].addresses = Without(@, address_str)]
                /\ result' = input_error(NoExc, "Address removed.")

----------------------------------------------------------------------------
(* Persistence: pickle.dump / pickle.load of the AddressBook               *)

\* what the book holds: name -> phones, birthday, addresses (no addresses
\* attribute counted as no addresses)
ContentOf(b) ==
    [n \in {b[i].name : i \in 1..Len(b)} |->
        LET rec == b[AddressBook_find(b, n)]
        IN  [phones |-> rec.phones, birthday |-> rec.birthday,
             addresses |-> rec.addresses]]

\* a variant that leaves the birthday out of the pickled state
Pickle_NoBirthday(b) ==
    [i \in 1..Len(b) |->
        [key |-> b[i].name,
         state |-> [name |-> b[i].name, phones |-> b[i].phones,
                    birthday |-> None,
                    hasAddresses |-> b[i].hasAddresses,
                    addresses |-> IF b[i].hasAddresses THEN b[i].addresses ELSE <<>>]]]

\* the pickled dict: per key, in order, the instance __dict__ of its Record
\* (the addresses attribute only when the Record has one)
Pickle(b) ==
    [i \in 1..Len(b) |->
        [key |-> b[i].name,
         state |-> [name |-> b[i].name, phones |-> b[i].phones,
                    birthday |-> b[i].birthday,
                    hasAddresses |-> b[i].hasAddresses,
                    addresses |-> IF b[i].hasAddresses THEN b[i].addresses ELSE <<>>]]]

\* pickle.load: new Records with the pickled attributes
Unpickle(data) ==
    [i \in 1..Len(data) |->
        [name |-> data[i].state.name,
         phones |-> data[i].state.phones, birthday |-> data[i].state.birthday,
         hasAddresses |-> data[i].state.hasAddresses,
         addresses |-> data[i].state.addresses]]

save_data(filename) ==
    /\ call' = [cmd |-> "save_data", today |-> None, path |-> filename]
    /\ files' = [files EXCEPT ![filename] = [exists |-> TRUE, data |-> Pickle(book)]]
    /\ saved' = [saved EXCEPT ![filename] = ContentOf(book)]
    /\ result' = Returned("None")
    /\ UNCHANGED book

\* book = load_data(filename); FileNotFoundError gives AddressBook()
load_data(filename) ==
    /\ call' = [cmd |-> "load_data", today |-> None, path |-> filename]
    /\ book' = IF files[filename].exists THEN Unpickle(files[filename].data) ELSE <<>>
    /\ result' = Returned("AddressBook")
    /\ UNCHANGED <<files, saved>>

----------------------------------------------------------------------------
(* Initial state: an empty AddressBook, no file on disk *)

\* the default filename of save_data and load_data
Paths == {"addressbook.pkl"}

NoFile == [exists |-> FALSE, data |-> <<>>]

Init ==
    /\ book = <<>>
    /\ files = [p \in Paths |-> NoFile]
    /\ call = Called("")
    /\ result = Returned("")
    /\ saved = [p \in Paths |-> ContentOf(<<>>)]

----------------------------------------------------------------------------
(* The inputs the operations are called with *)

OldPhoneInputs == {P1, P2, PShort}

\* DD.MM.YYYY strings: Saturday 15 and Sunday 16 June of 2024, 1 January,
\* 29 February; 30 February; a string with no year
B1506 == <<15, 6, 1990>>
B1606 == <<16, 6, 1992>>
B0101 == <<1, 1, 1990>>
B2902 == <<29, 2, 2000>>
B3002 == <<30, 2, 2000>>
BNoYear == <<12, 12>>

BirthdayInputs == {B1506, B1606, B0101, B2902, B3002, BNoYear}

\* Monday 10, Saturday 8 and Sunday 16 June 2024, Saturday 28 December 2024,
\* Saturday 25 February 2023 and Sunday 25 February 2024
TodayInputs ==
    {Date(2024, 6, 10), Date(2024, 6, 8), Date(2024, 6, 16), Date(2024, 12, 28),
     Date(2023, 2, 25), Date(2024, 2, 25)}

AddressInputs == {"x", "y"}

----------------------------------------------------------------------------
(* Specifications *)

\* phones: the Records of the book and the phones they hold
Next ==
    \/ \E n \in NameInputs, p \in PhoneInputs : add_contact(n, p)
    \/ \E n \in Names, o \in OldPhoneInputs, p \in PhoneInputs : change_contact(n, o, p)
    \/ \E n \in Names, p \in OldPhoneInputs : remove_phone(n, p)
    \/ \E n \in Names : add_record(n)
    \/ \E n \in Names : delete(n)

Spec == Init /\ [][Next]_vars

\* editing: two valid numbers and the numbers that fail validation
EditInputs == {P1, P2, PShort, PEmpty}

NextEdit ==
    \/ \E n \in Names, p \in EditInputs : add_contact(n, p)
    \/ \E n \in Names, o \in OldPhoneInputs, p \in EditInputs : change_contact(n, o, p)
    \/ \E n \in Names, p \in OldPhoneInputs : remove_phone(n, p)
    \/ \E n \in Names : delete(n)

SpecEdit == Init /\ [][NextEdit]_vars

\* birthdays: the set-once birthday and the upcoming-birthday report
NextBirthdays ==
    \/ \E n \in MoreNames : add_record(n)
    \/ \E n \in MoreNames, s \in BirthdayInputs : add_birthday(n, s)
    \/ \E t \in TodayInputs : get_upcoming_birthdays(t)

SpecBirthdays == Init /\ [][NextBirthdays]_vars

\* addresses
NextAddresses ==
    \/ \E n \in Names : add_contact(n, P1)
    \/ \E n \in Names, a \in AddressInputs : add_address(n, a)
    \/ \E n \in Names, o \in AddressInputs, a \in AddressInputs : change_address(n, o, a)
    \/ \E n \in Names, a \in AddressInputs : remove_address(n, a)
    \/ \E n \in Names : delete(n)

SpecAddresses == Init /\ [][NextAddresses]_vars

\* persistence: every field of a Record, saved and loaded
NextStore ==
    \/ \E n \in Names : add_contact(n, P1)
    \/ \E n \in Names : add_birthday(n, B1506)
    \/ \E n \in Names : add_address(n, "x")
    \/ \E n \in Names : remove_address(n, "x")
    \/ \E f \in Paths : save_data(f)
    \/ \E f \in Paths : load_data(f)

SpecStore == Init /\ [][NextStore]_vars

----------------------------------------------------------------------------
(* The properties *)

IsTenDecimalDigits(s) == Len(s) = 10 /\ \A i \in 1..Len(s) : s[i] \in DecimalChars

HasPhone(rec, number) == \E k \in 1..Len(rec.phones) : rec.phones[k] = number

\* 0 = Monday ... 6 = Sunday, counted from Monday 10 June 2024
DayOfWeek(dt) == (toordinal(dt) - toordinal(Date(2024, 6, 10))) % 7

\* the ordinal of the first day on or after today that has the birthday's
\* month and day (a 29 February counted as the day after 28 February)
CandidateOrdinal(birthday, today) ==
    LET this == toordinal(Date(today.y, birthday.m, birthday.d))
        next == toordinal(Date(today.y + 1, birthday.m, birthday.d))
    IN  IF this >= toordinal(today) THEN this ELSE next

InWindow(birthday, today) ==
    /\ toordinal(today) <= CandidateOrdinal(birthday, today)
    /\ CandidateOrdinal(birthday, today) <= toordinal(today) + 7

LinesOf(name) == {k \in 1..Len(result.lines) : result.lines[k].name = name}

\* C1: every Phone stored in every Record of the book is a string of exactly
\* 10 decimal digits, after any sequence of operations.
C1_PhonesAreTenDecimalDigits ==
    \A i \in 1..Len(book) : \A k \in 1..Len(book[i].phones) :
        IsTenDecimalDigits(book[i].phones[k])

\* C2: add_birthday on a Record whose birthday is set answers "Birthday
\* already set." whatever the new value and changes nothing; and a Record
\* whose birthday is set keeps it in every step (add_record puts a new
\* Record under its name, and only there is the birthday another one).
C2_BirthdaySetOnce ==
    [][/\ call'.cmd = "add_birthday" =>
            \A n \in MoreNames, s \in BirthdayInputs :
                (/\ AddressBook_find(book, n) # 0
                 /\ book[AddressBook_find(book, n)].birthday # None
                 /\ add_birthday(n, s))
                => (result' = Returned(BirthdayAlreadySet) /\ book' = book)
       /\ \A i \in 1..Len(book), j \in 1..Len(book') :
            (/\ book[i].name = book'[j].name
             /\ book[i].birthday # None
             /\ ~(call'.cmd = "add_record" /\ add_record(book[i].name)))
            => book'[j].birthday = book[i].birthday]_vars

\* a second add_birthday was refused and the Record kept its date
C2_Witness ==
    /\ call.cmd = "add_birthday"
    /\ result = Returned(BirthdayAlreadySet)
    /\ \E i \in 1..Len(book) : book[i].birthday = Date(1990, 6, 15)

\* C3: get_upcoming_birthdays(today) emits exactly one line for a Record with
\* a birthday whose candidate lies in today .. today + 7 days, and no line
\* for any other Record.
C3_LineIffInWindow ==
    call.cmd = "get_upcoming_birthdays" =>
        \A i \in 1..Len(book) :
            Cardinality(LinesOf(book[i].name)) =
                IF book[i].birthday # None /\ InWindow(book[i].birthday, call.today)
                THEN 1 ELSE 0

\* C4: every reported date is the candidate of its Record, moved by 2 days
\* from a Saturday and by 1 day from a Sunday: a Monday-to-Friday date, not
\* before the candidate and at most 9 days after today.
C4_WeekendShift ==
    call.cmd = "get_upcoming_birthdays" =>
        \A k \in 1..Len(result.lines) :
            LET line == result.lines[k]
                i == AddressBook_find(book, line.name)
                cand == CandidateOrdinal(book[i].birthday, call.today)
                shift == CASE (cand - toordinal(Date(2024, 6, 10))) % 7 = 5 -> 2
                           [] (cand - toordinal(Date(2024, 6, 10))) % 7 = 6 -> 1
                           [] OTHER -> 0
            IN  /\ i # 0
                /\ book[i].birthday # None
                /\ InWindow(book[i].birthday, call.today)
                /\ IsValidDate(line.date)
                /\ toordinal(line.date) = cand + shift
                /\ DayOfWeek(line.date) \in 0..4
                /\ toordinal(line.date) >= cand
                /\ toordinal(line.date) <= toordinal(call.today) + 9

\* a Saturday candidate 7 days after today, reported as the Monday 9 days
\* after today, and a Sunday candidate reported as the same Monday
C4_Witness ==
    /\ call.cmd = "get_upcoming_birthdays"
    /\ call.today = Date(2024, 6, 8)
    /\ result.kind = "return"
    /\ \E k \in 1..Len(result.lines) :
        /\ result.lines[k].date = Date(2024, 6, 17)
        /\ book[AddressBook_find(book, result.lines[k].name)].birthday
              = Date(1990, 6, 15)

\* C5: get_upcoming_birthdays returns a list for every book and every today.
C5_AlwaysReturns ==
    call.cmd = "get_upcoming_birthdays" => result.kind = "return"

\* C6: the candidate of every birthday is its month and day in today's year
\* when that is on or after today and in the next year otherwise, so it is
\* the first occurrence on or after today; a birthday early in January is
\* reported in the last 7 days of December.
C6_CandidateIsNextOccurrence ==
    call.cmd = "get_upcoming_birthdays" =>
        \A i \in 1..Len(book) :
            book[i].birthday # None =>
                LET c == bday_this_year(book[i].birthday, call.today)
                IN  /\ c.exc = NoExc
                    /\ c.value.m = book[i].birthday.m
                    /\ c.value.d = book[i].birthday.d
                    /\ c.value.y \in {call.today.y, call.today.y + 1}
                    /\ toordinal(c.value) = CandidateOrdinal(book[i].birthday, call.today)
                    /\ (book[i].birthday = Date(1990, 1, 1) /\ call.today = Date(2024, 12, 28))
                       => LinesOf(book[i].name) # {}

\* C7: change_contact of an existing Record that holds no Phone equal to the
\* old number answers "Old phone not found.", also for an invalid new
\* number, and leaves the book as it was.
C7_EditPhoneNotFound ==
    [][call'.cmd = "change_contact" =>
          \A n \in Names, o \in OldPhoneInputs, p \in EditInputs :
              (/\ AddressBook_find(book, n) # 0
               /\ ~HasPhone(book[AddressBook_find(book, n)], o)
               /\ change_contact(n, o, p))
              => (result' = Returned("Old phone not found.") /\ book' = book)]_vars

\* the old number was not found in a Record that holds two phones
C7_Witness ==
    /\ call.cmd = "change_contact"
    /\ result = Returned("Old phone not found.")
    /\ \E i \in 1..Len(book) : book[i].phones = <<P1, P2>>

\* C8: for an existing Record with no addresses change_address answers
\* that the old address was not found and remove_address changes nothing;
\* neither answers that the contact was not found.
C8_NoAddressesIsNotFound ==
    [][\A n \in Names, o \in AddressInputs, a \in AddressInputs :
          LET i == AddressBook_find(book, n)
          IN  /\ (change_address(n, o, a) /\ i # 0 /\ book[i].addresses = <<>>)
                 => (result' = Returned("Old address not found.") /\ book' = book)
              /\ (remove_address(n, a) /\ i # 0 /\ book[i].addresses = <<>>)
                 => (result' # Returned("Contact not found.") /\ book' = book)]_vars

C10_FailedAddChangesNothing ==
    [][\A n \in Names, p \in PhoneInputs :
          (add_contact(n, p) /\ result' = Returned(PhoneError)) => book' = book]_vars

====
